---- MODULE Spec2Model ----
(***************************************************************************)
(* Annotate: a Context is configured (source image, font, maximum font     *)
(* size, line height, fill) and WriteText(text, boundingBox) wraps the     *)
(* text, searches a font size that fits the box and draws the lines.       *)
(*                                                                         *)
(* Three specifications share the definitions below:                       *)
(*   Spec        the text fitting of WriteText on a Context whose source,  *)
(*               font and font colour are set, over every small text and   *)
(*               box;                                                      *)
(*   SpecNonNeg  Spec with the boxes kept to non-negative width and height;*)
(*   SpecConfig  the configuration calls from NewContext() on, with        *)
(*               WriteText on a few inputs.                                *)
(* Text and paths are sequences of one-character strings.  The sizes and   *)
(* widths are int32 in the code; within the bounds below every value stays *)
(* far from the ends of int32, so the arithmetic is that of the integers.  *)
(***************************************************************************)
EXTENDS Integers, Sequences, FiniteSets

VARIABLES
    src,            \* Context.src: the source image, or Nil
    fontBackground, \* Context.fontBackground: a canvas the size of src, or Nil
    font,           \* Context.font: the parsed font, or Nil
    maxFontSize,    \* Context.maxFontSize (int32)
    dpi,            \* Context.dpi
    lineHeight,     \* Context.lineHeight, in units of 1/LineHeightDen em
    fontColor,      \* Context.fontColor: the image glyphs are painted from, or Nil
    pc,             \* where the caller is: "idle", inside WriteText ("calc",
                    \* "draw", "done"), or "panic" (the process has crashed)
    text,           \* WriteText's text
    boundingBox,    \* WriteText's boundingBox
    fontSize,       \* calculateSize's fontSize argument
    attempt,        \* calculateSize's attempt argument
    lastFit,        \* calculateSize's lastFit argument
    lines,          \* the lines calculateSize laid out last
    retSize,        \* the font size calculateSize returned
    ret,            \* what the last call of the API returned
    lastFill        \* history: the fill SetFontColor / SetFontImage was last asked for

ctxVars  == <<src, fontBackground, font, maxFontSize, dpi, lineHeight, fontColor>>
callVars == <<text, boundingBox, fontSize, attempt, lastFit, lines, retSize>>
vars     == <<src, fontBackground, font, maxFontSize, dpi, lineHeight, fontColor,
              pc, text, boundingBox, fontSize, attempt, lastFit, lines, retSize,
              ret, lastFill>>

(***************************************************************************)
(* Bounds of the model.                                                    *)
(***************************************************************************)
MaxLen        == 3   \* longest text
MaxWidth      == 4   \* largest box width
MaxHeight     == 3   \* largest box height
MaxFont       == 3   \* largest size given to SetMaxFontSize
LineHeightDen == 2   \* line heights are multiples of 1/LineHeightDen em
MaxAttempt    == 6   \* recursion depth at which the model stops following calculateSize

Nil == "nil"

Chars == {"a", " ", "\n"}

RECURSIVE SeqsUpTo(_, _)
SeqsUpTo(S, n) ==
    IF n = 0 THEN {<<>>}
    ELSE LET shorter == SeqsUpTo(S, n - 1)
         IN  shorter \cup {Append(s, c) : s \in {t \in shorter : Len(t) = n - 1}, c \in S}

Texts == SeqsUpTo(Chars, MaxLen)

Rectangle(x, y, w, h) == [X |-> x, Y |-> y, Width |-> w, Height |-> h]

Origins == {<<1, 2>>}

\* the sizes, widths and heights are int32: a caller may pass a negative one
Negative == {-1}

Boxes == {Rectangle(o[1], o[2], w, h) :
            o \in Origins, w \in Negative \cup 0..MaxWidth, h \in Negative \cup 0..MaxHeight}

FontSizes == Negative \cup 0..MaxFont

\* 0 em and 1/LineHeightDen em
LineHeights == {0, 1}

\* Go's integer division and float-to-int conversion truncate toward zero.
TruncDiv(n, d) == IF n >= 0 THEN n \div d ELSE -((-n) \div d)

Abs(x) == IF x >= 0 THEN x ELSE -x

(***************************************************************************)
(* The font: glyph metrics in font units.  HMetric and Kerning scale a     *)
(* value in font units by the size and round to the nearest integer.       *)
(***************************************************************************)
Fonts == [n \in {"F1", "F2"} |->
            [unitsPerEm |-> 4,
             advance |-> [c \in Chars |-> IF c = "a" \/ n = "F2" THEN 4 ELSE 2],
             kern |-> [p \in Chars \X Chars |-> IF p = <<"a", "a">> THEN -1 ELSE 0]]]

FontScale(f, x) ==
    IF x >= 0 THEN (x + Fonts[f].unitsPerEm \div 2) \div Fonts[f].unitsPerEm
    ELSE -(((-x) + Fonts[f].unitsPerEm \div 2) \div Fonts[f].unitsPerEm)

AdvanceWidth(f, scale, c) == FontScale(f, scale * Fonts[f].advance[c])

Kerning(f, scale, c1, c2) == FontScale(f, scale * Fonts[f].kern[<<c1, c2>>])

RECURSIVE wordWidthFrom(_, _, _, _)
wordWidthFrom(f, word, size, i) ==
    IF i > Len(word) THEN 0
    ELSE AdvanceWidth(f, size, word[i])
         + (IF i # Len(word) THEN Kerning(f, size, word[i], word[i + 1]) ELSE 0)
         + wordWidthFrom(f, word, size, i + 1)

wordWidth(f, word, size) == wordWidthFrom(f, word, size, 1)

(***************************************************************************)
(* strings.Split(s, sep) for a one-character sep: the pieces between the   *)
(* separators, always at least one piece.                                  *)
(***************************************************************************)
RECURSIVE SplitFrom(_, _, _, _)
SplitFrom(s, sep, i, piece) ==
    IF i > Len(s) THEN <<piece>>
    ELSE IF s[i] = sep THEN <<piece>> \o SplitFrom(s, sep, i + 1, <<>>)
    ELSE SplitFrom(s, sep, i + 1, Append(piece, s[i]))

Split(s, sep) == SplitFrom(s, sep, 1, <<>>)

(***************************************************************************)
(* calculateSize, first part: the greedy wrap.                             *)
(***************************************************************************)
NewLine == [Words |-> <<>>, XPos |-> 0, YPos |-> 0, currWidth |-> 0, BaseToBaseHeight |-> 0]

\* lines = append(lines, &Line{}) at the start of every hard line
StartHardLineShared(ls) == IF ls = <<>> THEN <<NewLine>> ELSE ls

StartHardLine(ls) == Append(ls, NewLine)

\* one round of the loop over a hard line's words
PlaceWord(f, ls, word, size, width) ==
    LET spaceWidth == wordWidth(f, <<" ">>, size)
        ww         == wordWidth(f, word, size)
        curr       == ls[Len(ls)]
        broken     == IF ww + curr.currWidth + spaceWidth > width
                      THEN Append(ls, NewLine) ELSE ls
        n          == Len(broken)
    IN  [broken EXCEPT ![n].Words = Append(@, word),
                       ![n].currWidth = @ + spaceWidth + ww]

RECURSIVE WrapWords(_, _, _, _, _, _)
WrapWords(f, ls, words, j, size, width) ==
    IF j > Len(words) THEN ls
    ELSE WrapWords(f, PlaceWord(f, ls, words[j], size, width), words, j + 1, size, width)

RECURSIVE WrapHardLines(_, _, _, _, _, _)
WrapHardLines(f, ls, hardLines, i, size, width) ==
    IF i > Len(hardLines) THEN ls
    ELSE WrapHardLines(f,
             WrapWords(f, StartHardLine(ls), Split(hardLines[i], " "), 1, size, width),
             hardLines, i + 1, size, width)

Wrap(f, t, size, width) == WrapHardLines(f, <<>>, Split(t, "\n"), 1, size, width)

(***************************************************************************)
(* calculateSize, second part: the lines' positions and the total height.  *)
(***************************************************************************)
\* int32(c.lineHeight * float64(fontSize))
LinePadding(lh, size) == TruncDiv(lh * size, LineHeightDen)

RECURSIVE PositionFrom(_, _, _, _, _)
PositionFrom(ls, i, box, lh, size) ==
    IF i > Len(ls) THEN ls
    ELSE LET overHeadSpace == LinePadding(lh, size) + size
             placed == IF i = 1
                       THEN [ls EXCEPT ![1].YPos = @ + box.Y,
                                       ![1].BaseToBaseHeight = size,
                                       ![1].XPos = @ + box.X]
                       ELSE [ls EXCEPT ![i].YPos = @ + ls[i - 1].YPos + overHeadSpace,
                                       ![i].BaseToBaseHeight = overHeadSpace,
                                       ![i].XPos = @ + box.X]
         IN  PositionFrom(placed, i + 1, box, lh, size)

RECURSIVE SumBaseToBase(_, _)
SumBaseToBase(ls, i) ==
    IF i > Len(ls) THEN 0 ELSE ls[i].BaseToBaseHeight + SumBaseToBase(ls, i + 1)

Layout(f, t, box, lh, size) == PositionFrom(Wrap(f, t, size, box.Width), 1, box, lh, size)

TotalHeight(ls, lh, size) == SumBaseToBase(ls, 1) + LinePadding(lh, size)

(***************************************************************************)
(* calculateSize, third part: return, or probe another size.               *)
(***************************************************************************)
largerMin(a, b) == IF a >= b THEN b ELSE a

larger(a, b) == IF a >= b THEN a ELSE b

\* int32(math.Floor(float64(a+b)/2 + 0.5))
Midpoint(a, b) == (a + b + 1) \div 2

Return(size) == [return |-> TRUE, size |-> size, fontSize |-> 0, lastFit |-> 0]

Recurse(size, lf) == [return |-> FALSE, size |-> 0, fontSize |-> size, lastFit |-> lf]

\* att is the attempt after attempt++
Decide(size, att, lf, totalHeight, box, max) ==
    IF att = 0 /\ totalHeight <= box.Height THEN Return(size)
    ELSE IF totalHeight <= box.Height
    THEN IF size = lf THEN Return(size)
         ELSE IF Abs(size - lf) = 1 THEN Return(larger(lf, size))
         ELSE Recurse(Midpoint(size, max), size)
    ELSE IF Abs(size - lf) = 1 THEN Return(larger(lf, size))
         ELSE Recurse(Midpoint(size, lf), lf)

(***************************************************************************)
(* Images, errors and what a call returns.                                 *)
(***************************************************************************)
Image(kind, of) == [kind |-> kind, of |-> of]

NilImage == Image(Nil, <<>>)

\* image.NewUniform(rgbaColor)
Uniform(c) == Image("uniform", <<c>>)

\* image.NewRGBA(img.Bounds()): a blank canvas with img's bounds
NewRGBA(img) == [set |-> TRUE, bounds |-> img, pix |-> NilImage]

NoCanvas == [set |-> FALSE, bounds |-> NilImage, pix |-> NilImage]

Error(kind, detail) == [kind |-> kind, detail |-> detail]

NoError == Error(Nil, <<>>)

NoOutput == [base |-> NilImage, paint |-> NilImage, font |-> Nil, fontSize |-> 0,
             dpi |-> 0, drawn |-> <<>>]

Returned(op, arg, err, image) == [op |-> op, arg |-> arg, err |-> err, image |-> image]

\* no call of WriteText is in progress
NoCall(t, box, size, att, lf, ls, rs) ==
    /\ t = <<>>
    /\ box = Rectangle(0, 0, 0, 0)
    /\ size = 0
    /\ att = 0
    /\ lf = 0
    /\ ls = <<>>
    /\ rs = 0

(***************************************************************************)
(* The configuration calls of the text fitting.                            *)
(***************************************************************************)
SetMaxFontSize(size) ==
    /\ pc = "idle"
    /\ maxFontSize' = size
    /\ ret' = Returned("SetMaxFontSize", <<>>, NoError, NoOutput)
    /\ UNCHANGED <<src, fontBackground, font, dpi, lineHeight, fontColor, pc, callVars, lastFill>>

SetLineHeight(height) ==
    /\ pc = "idle"
    /\ lineHeight' = height
    /\ ret' = Returned("SetLineHeight", <<>>, NoError, NoOutput)
    /\ UNCHANGED <<src, fontBackground, font, maxFontSize, dpi, fontColor, pc, callVars, lastFill>>

(***************************************************************************)
(* The other configuration calls.  A file behind a path may or may not     *)
(* open, decode or parse: the call takes any of these outcomes.            *)
(***************************************************************************)
ImagePaths == {<<"x", ".", "p", "n", "g">>, <<"x", ".", "P", "N", "G">>,
               <<"x", ".", "j", "p", "g">>, <<"x", ".", "j", "p", "e", "g">>,
               <<"x", ".", "g", "i", "f">>, <<"x">>,
               <<"x", ".", "p", "n", "g", "/", "x">>}

FontPaths == {<<"f", ".", "t", "t", "f">>}

\* filepath.Ext: the suffix from the last dot of the last path element on
RECURSIVE ExtFrom(_, _)
ExtFrom(path, i) ==
    IF i < 1 \/ path[i] = "/" THEN <<>>
    ELSE IF path[i] = "." THEN SubSeq(path, i, Len(path))
    ELSE ExtFrom(path, i - 1)

Ext(path) == ExtFrom(path, Len(path))

LowerChar(c) == CASE c = "P" -> "p" [] c = "N" -> "n" [] c = "G" -> "g" [] OTHER -> c

\* strings.ToLower
ToLower(str) == [i \in 1..Len(str) |-> LowerChar(str[i])]

PngExt == <<".", "p", "n", "g">>

JpegExts == {<<".", "j", "p", "g">>, <<".", "j", "p", "e", "g">>}

\* the error SetSrcPath returns: os.Open first, then the switch on the extension,
\* then the decoder
SetSrcPathError(path, canOpen, decodes) ==
    LET extension == ToLower(Ext(path))
    IN  IF ~canOpen THEN Error("open", path)
        ELSE IF extension # PngExt /\ extension \notin JpegExts THEN Error("unsupported", extension)
        ELSE IF ~decodes THEN Error("decode", path)
        ELSE NoError

SetSrc(img) ==
    /\ pc = "idle"
    /\ src' = img
    /\ fontBackground' = NewRGBA(img)
    /\ ret' = Returned("SetSrc", <<>>, NoError, NoOutput)
    /\ UNCHANGED <<font, maxFontSize, dpi, lineHeight, fontColor, pc, callVars, lastFill>>

SetSrcPath(path) ==
    /\ pc = "idle"
    /\ \E canOpen \in BOOLEAN, decodes \in BOOLEAN :
        LET err == SetSrcPathError(path, canOpen, decodes)
        IN  /\ ret' = Returned("SetSrcPath", path, err, NoOutput)
            /\ IF err = NoError
               THEN /\ src' = Image("decoded", path)
                    /\ fontBackground' = NewRGBA(Image("decoded", path))
               ELSE UNCHANGED <<src, fontBackground>>
    /\ UNCHANGED <<font, maxFontSize, dpi, lineHeight, fontColor, pc, callVars, lastFill>>

\* what the file holds: nothing readable, bytes that are no font, or a font
FontFiles == {"unreadable", "garbage", "F1", "F2"}

\* c.font, err = freetype.ParseFont(fontRaw): the font is nil when err is not
SetFontPath(path) ==
    /\ pc = "idle"
    /\ \E file \in FontFiles :
        IF file = "unreadable"
        THEN /\ ret' = Returned("SetFontPath", path, Error("read", path), NoOutput)
             /\ UNCHANGED font
        ELSE /\ font' = IF file = "garbage" THEN Nil ELSE file
             /\ ret' = Returned("SetFontPath", path,
                                IF file = "garbage" THEN Error("parse", <<>>) ELSE NoError,
                                NoOutput)
    /\ UNCHANGED <<src, fontBackground, maxFontSize, dpi, lineHeight, fontColor, pc, callVars, lastFill>>

SetFont(f) ==
    /\ pc = "idle"
    /\ font' = f
    /\ ret' = Returned("SetFont", <<>>, NoError, NoOutput)
    /\ UNCHANGED <<src, fontBackground, maxFontSize, dpi, lineHeight, fontColor, pc, callVars, lastFill>>

SetDPI(d) ==
    /\ pc = "idle"
    /\ dpi' = d
    /\ ret' = Returned("SetDPI", <<>>, NoError, NoOutput)
    /\ UNCHANGED <<src, fontBackground, font, maxFontSize, lineHeight, fontColor, pc, callVars, lastFill>>

SetFontColor(rgbaColor) ==
    /\ pc = "idle"
    /\ fontColor' = Uniform(rgbaColor)
    /\ lastFill' = Uniform(rgbaColor)
    /\ ret' = Returned("SetFontColor", <<>>, NoError, NoOutput)
    /\ UNCHANGED <<src, fontBackground, font, maxFontSize, dpi, lineHeight, pc, callVars>>

\* draw.Draw(c.fontBackground, c.fontBackground.Bounds(), backgroundImage, image.ZP, 0)
SetFontImage(backgroundImage) ==
    /\ pc = "idle"
    /\ UNCHANGED <<src, font, maxFontSize, dpi, lineHeight, fontColor, callVars>>
    /\ IF ~fontBackground.set
       THEN \* c.fontBackground.Bounds() on a nil canvas
            /\ pc' = "panic"
            /\ UNCHANGED <<fontBackground, lastFill, ret>>
       ELSE /\ fontBackground' = [fontBackground EXCEPT !.pix = backgroundImage]
            /\ lastFill' = backgroundImage
            /\ ret' = Returned("SetFontImage", <<>>, NoError, NoOutput)
            /\ UNCHANGED pc

(***************************************************************************)
(* WriteText: calculateSize(text, boundingBox, c.maxFontSize, -1, 0), one   *)
(* step per call of calculateSize, then drawLines.                         *)
(***************************************************************************)
WriteText(t, box) ==
    /\ pc = "idle"
    /\ ret' = Returned("WriteText", t, Error("pending", <<>>), NoOutput)
    /\ UNCHANGED <<ctxVars, lastFill>>
    /\ IF font = Nil
       THEN \* c.font.Index on a nil font
            /\ pc' = "panic"
            /\ UNCHANGED callVars
       ELSE /\ pc' = "calc"
            /\ text' = t
            /\ boundingBox' = box
            /\ fontSize' = maxFontSize
            /\ attempt' = -1
            /\ lastFit' = 0
            /\ lines' = <<>>
            /\ retSize' = 0

CalculateSize ==
    /\ pc = "calc"
    /\ attempt < MaxAttempt
    /\ LET ls  == Layout(font, text, boundingBox, lineHeight, fontSize)
           att == attempt + 1
           d   == Decide(fontSize, att, lastFit, TotalHeight(ls, lineHeight, fontSize),
                         boundingBox, maxFontSize)
       IN  /\ lines' = ls
           /\ attempt' = att
           /\ IF d.return
              THEN /\ pc' = "draw"
                   /\ retSize' = d.size
                   /\ UNCHANGED <<fontSize, lastFit>>
              ELSE /\ pc' = "calc"
                   /\ fontSize' = d.fontSize
                   /\ lastFit' = d.lastFit
                   /\ UNCHANGED retSize
    /\ UNCHANGED <<ctxVars, text, boundingBox, ret, lastFill>>

\* strings.Join(words, " ")
RECURSIVE Join(_, _)
Join(words, i) ==
    IF i > Len(words) THEN <<>>
    ELSE words[i] \o (IF i < Len(words) THEN <<" ">> ELSE <<>>) \o Join(words, i + 1)

Drawn(line) == [str |-> Join(line.Words, 1), X |-> line.XPos, Y |-> line.YPos]

\* a line with a glyph that has ink: painting it reads the paint source
Inked(line) == \E i \in 1..Len(line.Words) : \E j \in 1..Len(line.Words[i]) : line.Words[i][j] = "a"

Canvas(k) == [base |-> src, paint |-> fontColor, font |-> font, fontSize |-> retSize,
              dpi |-> dpi, drawn |-> [i \in 1..k |-> Drawn(lines[i])]]

\* k lines are drawn; DrawString fails on the next one, if there is one
DrawLines ==
    /\ pc = "draw"
    /\ UNCHANGED <<ctxVars, callVars, lastFill>>
    /\ IF src = NilImage
       THEN \* c.src.Bounds() on a nil image
            /\ pc' = "panic"
            /\ UNCHANGED ret
       ELSE \E k \in 0..Len(lines) : \E crash \in BOOLEAN :
            /\ fontColor = NilImage => \A i \in 1..k : ~Inked(lines[i])
            /\ crash => (k < Len(lines) /\ fontColor = NilImage /\ Inked(lines[k + 1]))
            /\ IF crash
               THEN \* the rasterizer reads a nil paint source
                    /\ pc' = "panic"
                    /\ UNCHANGED ret
               ELSE /\ pc' = "done"
                    /\ ret' = Returned("WriteText", text,
                                       IF k < Len(lines) THEN Error("DrawString", <<>>) ELSE NoError,
                                       Canvas(k))

\* the caller takes what WriteText returned and goes on
WriteTextReturn ==
    /\ pc = "done"
    /\ pc' = "idle"
    /\ NoCall(text', boundingBox', fontSize', attempt', lastFit', lines', retSize')
    /\ ret' = Returned("WriteText", <<>>, NoError, NoOutput)
    /\ UNCHANGED <<ctxVars, lastFill>>

(***************************************************************************)
(* Spec: text fitting on a Context with source, font and colour set.       *)
(***************************************************************************)
InitCall ==
    /\ pc = "idle"
    /\ NoCall(text, boundingBox, fontSize, attempt, lastFit, lines, retSize)
    /\ ret = Returned("NewContext", <<>>, NoError, NoOutput)

Init ==
    /\ src = Image("given", <<"A">>)
    /\ fontBackground = NewRGBA(src)
    /\ font = "F1"
    /\ maxFontSize = 0
    /\ dpi = 0
    /\ lineHeight = 0
    /\ fontColor = Uniform("black")
    /\ lastFill = fontColor
    /\ InitCall

Next ==
    \/ \E size \in FontSizes : SetMaxFontSize(size)
    \/ \E height \in LineHeights : SetLineHeight(height)
    \/ \E t \in Texts, box \in Boxes : WriteText(t, box)
    \/ CalculateSize
    \/ DrawLines
    \/ WriteTextReturn

Spec == Init /\ [][Next]_vars

(***************************************************************************)
(* SpecNonNeg: Spec with the boxes WriteText is given kept to those of     *)
(* non-negative width and height.                                          *)
(***************************************************************************)
NonNegBoxes == {box \in Boxes : box.Width >= 0 /\ box.Height >= 0}

NextNonNeg ==
    \/ \E size \in FontSizes : SetMaxFontSize(size)
    \/ \E height \in LineHeights : SetLineHeight(height)
    \/ \E t \in Texts, box \in NonNegBoxes : WriteText(t, box)
    \/ CalculateSize
    \/ DrawLines
    \/ WriteTextReturn

SpecNonNeg == Init /\ [][NextNonNeg]_vars

(***************************************************************************)
(* SpecConfig: every configuration call from NewContext() on, and          *)
(* WriteText on a few inputs.                                              *)
(***************************************************************************)
InitConfig ==
    /\ src = NilImage
    /\ fontBackground = NoCanvas
    /\ font = Nil
    /\ maxFontSize = 0
    /\ dpi = 0
    /\ lineHeight = 0
    /\ fontColor = NilImage
    /\ lastFill = NilImage
    /\ InitCall

ConfigImages == {Image("given", <<"A">>)}

ConfigFills == {Image("given", <<"B">>)}

ConfigTexts == {<<"a">>, <<" ">>}

ConfigBoxes == {Rectangle(0, 0, 4, 4)}

NextConfig ==
    \/ \E img \in ConfigImages : SetSrc(img)
    \/ \E path \in ImagePaths : SetSrcPath(path)
    \/ \E path \in FontPaths : SetFontPath(path)
    \/ \E f \in {"F1", "F2"} : SetFont(f)
    \/ \E size \in {2} : SetMaxFontSize(size)
    \/ \E d \in {72} : SetDPI(d)
    \/ \E c \in {"red"} : SetFontColor(c)
    \/ \E img \in ConfigFills : SetFontImage(img)
    \/ \E t \in ConfigTexts, box \in ConfigBoxes : WriteText(t, box)
    \/ CalculateSize
    \/ DrawLines
    \/ WriteTextReturn

SpecConfig == InitConfig /\ [][NextConfig]_vars

(***************************************************************************)
(* The claims about the text fitting, checked under Spec.                  *)
(***************************************************************************)
\* the search has returned: lines and retSize are what drawLines is handed
Searched == pc \in {"draw", "done"}

\* a layout has been computed in this call; its size is the first line's
\* BaseToBaseHeight
Probed == pc \in {"calc", "draw", "done"} /\ lines # <<>>

ProbedSize == lines[1].BaseToBaseHeight

HeightAt(size) == TotalHeight(Layout(font, text, boundingBox, lineHeight, size), lineHeight, size)

FittingSizes == {s \in 1..maxFontSize : HeightAt(s) <= boundingBox.Height}

Largest(S) == CHOOSE s \in S : \A u \in S : u <= s

\* C1: when some size in 1..maxFontSize fits, the search returns the largest
\* size in 1..maxFontSize whose layout height is at most the box height.
C1_ReturnsLargestFit ==
    (Searched /\ maxFontSize >= 1 /\ FittingSizes # {})
        => retSize = Largest(FittingSizes)

\* C2: when some size fits, the lines and size handed to drawLines have a
\* total height (every BaseToBaseHeight plus the bottom padding) of at most
\* the box height, and the size is no larger than the largest fitting size.
C2_ReturnedLayoutFits ==
    (Searched /\ FittingSizes # {})
        => /\ SumBaseToBase(lines, 1) + LinePadding(lineHeight, retSize) <= boundingBox.Height
           /\ retSize <= Largest(FittingSizes)

RECURSIVE SumWordWidths(_, _, _)
SumWordWidths(words, size, i) ==
    IF i > Len(words) THEN 0
    ELSE wordWidth(font, words[i], size) + SumWordWidths(words, size, i + 1)

\* the words' widths plus one space width between adjacent words
RenderedWidth(line, size) ==
    SumWordWidths(line.Words, size, 1)
    + (IF Len(line.Words) > 1 THEN (Len(line.Words) - 1) * wordWidth(font, <<" ">>, size) ELSE 0)

WidthOk(line, size, width) ==
    \/ RenderedWidth(line, size) <= width
    \/ Len(line.Words) = 1 /\ wordWidth(font, line.Words[1], size) > width

\* C3: every line of the wrap is at most as wide as the box, except a line
\* that holds exactly one word that is itself wider than the box.
C3_LinesWithinWidth ==
    Probed => \A i \in 1..Len(lines) : WidthOk(lines[i], ProbedSize, boundingBox.Width)

SingleWord(t) == t # <<>> /\ \A i \in 1..Len(t) : t[i] \notin {" ", "\n"}

\* C4: a single word wider than the box is laid out as exactly one line that
\* holds the word.
C4_WideWordAlone ==
    (Probed /\ SingleWord(text) /\ wordWidth(font, text, ProbedSize) > boundingBox.Width)
        => Len(lines) = 1 /\ lines[1].Words = <<text>>

RECURSIVE FlattenWords(_, _, _)
FlattenWords(ls, from, to) ==
    IF from > to THEN <<>> ELSE ls[from].Words \o FlattenWords(ls, from + 1, to)

\* the lines from `from` on split into one non-empty run of lines per hard
\* line, each run holding exactly that hard line's words
RECURSIVE RunsMatch(_, _, _, _)
RunsMatch(ls, from, hardLines, i) ==
    IF i > Len(hardLines) THEN from = Len(ls) + 1
    ELSE \E to \in from..Len(ls) :
            /\ FlattenWords(ls, from, to) = Split(hardLines[i], " ")
            /\ RunsMatch(ls, to + 1, hardLines, i + 1)

\* C5: every newline of the text starts a new line: no line holds words of
\* two hard lines, and there are at least as many lines as hard lines.
C5_NewlinesBreak ==
    Probed => /\ RunsMatch(lines, 1, Split(text, "\n"), 1)
              /\ Len(lines) >= Len(Split(text, "\n"))

C5_Witness ==
    /\ pc = "draw"
    /\ text = <<"a", "\n", "a">>
    /\ ProbedSize = 1
    /\ boundingBox.Width = 4
    /\ Len(lines) = 2

\* C6: the search never calls calculateSize again with the fontSize and
\* lastFit it was called with.
C6_ProbesDiffer ==
    [][(pc = "calc" /\ pc' = "calc") => <<fontSize', lastFit'>> # <<fontSize, lastFit>>]_vars

\* C7: when no size in 1..maxFontSize fits, the search returns size 1 with the
\* layout at size 1, and WriteText draws it; the only error it can report is
\* a failed DrawString.
C7_NoFitReturnsSizeOne ==
    (Searched /\ maxFontSize >= 1 /\ FittingSizes = {})
        => /\ retSize = 1
           /\ lines = Layout(font, text, boundingBox, lineHeight, 1)
           /\ pc = "done" =>
                /\ ret.err \in {NoError, Error("DrawString", <<>>)}
                /\ ret.image.fontSize = 1
                /\ ret.err = NoError => ret.image.drawn = [i \in 1..Len(lines) |-> Drawn(lines[i])]

C7_Witness ==
    /\ pc = "done"
    /\ maxFontSize = 3
    /\ FittingSizes = {}
    /\ text = <<"a", " ", "a">>
    /\ ret.err = NoError
    /\ Len(ret.image.drawn) >= 2

(***************************************************************************)
(* The claims about the configuration calls, checked under SpecConfig.     *)
(***************************************************************************)
Supported(path) == ToLower(Ext(path)) = PngExt \/ ToLower(Ext(path)) \in JpegExts

\* a step that is a whole call of the named operation
Called(op) == pc = "idle" /\ pc' = "idle" /\ ret'.op = op

\* C8: SetSrcPath with an extension other than .png, .jpg, .jpeg reports the
\* unsupported-format error naming the extension, whether or not the file
\* opens, and leaves the source image and its canvas as they were.
C8_UnsupportedReported ==
    [][(Called("SetSrcPath") /\ ~Supported(ret'.arg))
         => /\ ret'.err = Error("unsupported", ToLower(Ext(ret'.arg)))
            /\ UNCHANGED <<src, fontBackground>>]_vars

\* a glyph with ink has been painted onto the returned image
InkDrawn == \E i \in 1..Len(ret.image.drawn) : \E j \in 1..Len(ret.image.drawn[i].str) :
                ret.image.drawn[i].str[j] = "a"

\* C9: what drawLines paints the glyphs from is the fill asked for last, by
\* SetFontColor (the uniform colour) or by SetFontImage (the image).
C9_PaintsLastFill ==
    (pc = "done" /\ InkDrawn /\ lastFill # NilImage) => ret.image.paint = lastFill

\* C10: a SetFontPath that returns an error on a Context that has a font
\* leaves the font and every other field as they were.
C10_FailedSetFontPathKeepsContext ==
    [][(Called("SetFontPath") /\ ret'.err # NoError /\ font # Nil)
         => UNCHANGED ctxVars]_vars

====
